---- MODULE Spec2Model ----
(***************************************************************************)
(* Verification model of the kvs project (courses/rust/projects/kvs):      *)
(*   - KvStore, the log-structured engine (src/kvs.rs);                    *)
(*   - SharedQueueThreadPool and its supervisor (thread_pool/shared_queue).*)
(* The log file is a sequence of bytes.  A byte is modelled by a string:   *)
(* the record tags "S", "R", "G", a key, a value, or the newline "NL".     *)
(* serde_json's text `{"Set":{"key":k,"value":v}}` is shortened to the     *)
(* three bytes <<"S", k, v>>; COMPACTION_SIZE is scaled with it.           *)
(***************************************************************************)
EXTENDS Naturals, Integers, Sequences, FiniteSets, TLC

VARIABLES
    \* ---- KvStore (kvs.rs:31-42) and the file at KvStore.file
    file,           \* content of the log file, a sequence of bytes
    map,            \* KvStore.map: cached key -> value
    dirty,          \* KvStore.dirty
    log_pointers,   \* KvStore.log_pointers: key -> Bound
    actions,        \* KvStore.actions
    status,         \* "running", "panicked" once a call has unwound, or
                    \* "failed" once a call has returned an I/O error
    \* ---- history of the calls made on the store (not program state)
    abs,            \* key -> value of the last Ok set not followed by an Ok remove
    last,           \* the last call: its input, its result, and snapshots
    \* ---- SharedQueueThreadPool (shared_queue.rs:19-27), its threads and channel
    threads,        \* SharedQueueThreadPool.threads
    jobs,           \* the VecDeque behind SharedQueueThreadPool.jobs
    lock,           \* owner of the jobs mutex, or NoThread
    chan,           \* messages in flight on the unbounded (tx, rx) channel
    wpc,            \* worker thread -> position in Worker::run
    wtask,          \* worker thread -> the task it is executing
    spc,            \* position of the supervisor thread in Worker::help
    mpc,            \* position of the thread that owns the pool
    hidx,           \* Drop: index into handles of the handle being awaited
    nspawned,       \* number of tasks given to spawn so far
    npanics,        \* number of tasks that have panicked so far (history)
    nruns,          \* task -> number of times a worker has called it (history)
    \* ---- KvsServer (kvs_server.rs:17-21) and the client of a connection
    srv,            \* position of KvsServer::serve
    conn,           \* the last connection: request, engine result, reply, exit code
    nconn,          \* number of connections accepted so far
    \* ---- SharedKvsEngine (kvs_engine.rs:11-13) and the threads that hold clones
    elock,          \* owner of the engine mutex, or NoThread
    tpc,            \* thread -> position inside SharedKvsEngine::set/get/remove
    treq,           \* thread -> the operation it is executing
    tres,           \* thread -> result of the last operation it completed
    tn,             \* thread -> number of operations it has started
    tref,           \* thread -> result of that operation in the sequential order (history)
    ref,            \* the store after the operations so far, one at a time in
                    \* the order of their lock() (history)
    \* ---- ThreadPool of exercise2 (thread_pool.rs:19-24) or NaiveThreadPool
    \* ---- (naive.rs:14-19), which has the same fields; its workers and tasks
    xpool,          \* availThreads, workingThreads and recvChan
    xmain,          \* position of the thread that owns the pool, locals of clear
    xwk,            \* worker -> position in its loop, its work channel, its park token
    xtask           \* task -> how far it has got, and whether it panics when run

kvVars == <<file, map, dirty, log_pointers, actions, status, abs, last>>
poolVars == <<threads, jobs, lock, chan, wpc, wtask, spc, mpc, hidx, nspawned, npanics, nruns>>
srvVars == <<srv, conn, nconn>>
shVars == <<elock, tpc, treq, tres, tn, tref, ref>>
exVars == <<xpool, xmain, xwk, xtask>>
vars == <<kvVars, poolVars, srvVars, shVars, exVars>>

-----------------------------------------------------------------------------
(* Inputs and bounds *)

Keys == {"k1", "k2"}
Vals == {"v1", "v2"}
None == "None"
NL == "NL"

\* kvs.rs:65 is 10000 (bytes of log, see write_log); scaled to the 3/4-byte records
COMPACTION_SIZE == 8

\* appends stop once the file holds this many bytes (keeps the model finite)
MaxLogLen == 14

\* SharedQueueThreadPool::new(n) is called with n in 0..MaxPool
MaxPool == 2
\* at most this many tasks are given to spawn
MaxTasks == 3
\* KvsServer::serve accepts at most this many connections
MaxConns == 3
\* together they make at most this many calls
MaxOps == 4
\* ThreadPool::new(size) of exercise2 is called with size in 0..MaxExPool
MaxExPool == 2
\* at most this many tasks are given to execute
MaxExTasks == 3

-----------------------------------------------------------------------------
(* CommandData and its codec (serde_json::to_string / from_slice) *)

SetCmd(k, v) == [tag |-> "Set", key |-> k, value |-> v]
GetCmd(k) == [tag |-> "Get", key |-> k, value |-> None]
RmCmd(k) == [tag |-> "Rm", key |-> k, value |-> None]
DecodeError == [tag |-> "Error", key |-> None, value |-> None]

\* serde_json::to_string(&data): the record without its newline
to_string(cmd) ==
    CASE cmd.tag = "Set" -> <<"S", cmd.key, cmd.value>>
      [] cmd.tag = "Get" -> <<"G", cmd.key>>
      [] cmd.tag = "Rm" -> <<"R", cmd.key>>

\* serde_json::from_slice(bytes): a command, or DecodeError on anything else
from_slice(bytes) ==
    IF Len(bytes) = 3 /\ bytes[1] = "S" /\ bytes[2] \in Keys /\ bytes[3] \in Vals
    THEN SetCmd(bytes[2], bytes[3])
    ELSE IF Len(bytes) = 2 /\ bytes[1] = "G" /\ bytes[2] \in Keys
    THEN GetCmd(bytes[2])
    ELSE IF Len(bytes) = 2 /\ bytes[1] = "R" /\ bytes[2] \in Keys
    THEN RmCmd(bytes[2])
    ELSE DecodeError

\* writeln!(file, "{}", serial)
writeln(f, serial) == f \o serial \o <<NL>>

-----------------------------------------------------------------------------
(* The store as a value, so that the private methods are operators *)

NoBound == [begin |-> 0 - 1, end |-> 0 - 1]
Bound(b, e) == [begin |-> b, end |-> e]

Store == [file |-> file, map |-> map, dirty |-> dirty,
          log_pointers |-> log_pointers, actions |-> actions, out |-> "Ok"]

\* KvStore::open on a directory whose log file holds f
open(f) == [file |-> f, map |-> [k \in Keys |-> None], dirty |-> TRUE,
            log_pointers |-> [k \in Keys |-> NoBound], actions |-> 0, out |-> "Ok"]

\* read_log's closure over the bytes vec[i..]; begin and i-1 (= end) are 0-based
RECURSIVE read_bytes(_, _, _, _)
read_bytes(st, vec, i, begin) ==
    IF i > Len(vec) THEN st
    ELSE IF vec[i] # NL
    THEN read_bytes([st EXCEPT !.dirty = FALSE], vec, i + 1, begin)
    ELSE LET cmd == from_slice(SubSeq(vec, begin + 1, i - 1))
         IN  IF cmd.tag = "Error" THEN [st EXCEPT !.out = "Err"]
             ELSE LET st1 ==
                        CASE cmd.tag = "Set" ->
                               [st EXCEPT !.map[cmd.key] = cmd.value,
                                          !.log_pointers[cmd.key] = Bound(begin, i - 1)]
                          [] cmd.tag = "Rm" ->
                               [st EXCEPT !.map[cmd.key] = None,
                                          !.log_pointers[cmd.key] = NoBound]
                          [] OTHER -> st
                  IN  read_bytes([st1 EXCEPT !.dirty = FALSE], vec, i + 1, i)

\* KvStore::read_log
read_log(st) ==
    IF ~st.dirty THEN st
    ELSE read_bytes(st, st.file, 1, 0)

-----------------------------------------------------------------------------
(* compact_log *)

\* HashMap::values() yields the bounds in an unspecified order and the (stable)
\* sort compares begin only: ties keep the iteration order perm
Perms == {p \in [1..Cardinality(Keys) -> Keys] : \A k \in Keys : \E i \in DOMAIN p : p[i] = k}
Rank(perm, k) == CHOOSE i \in DOMAIN perm : perm[i] = k

Before(lp, perm, j, k) ==
    \/ lp[j].begin < lp[k].begin
    \/ lp[j].begin = lp[k].begin /\ Rank(perm, j) < Rank(perm, k)

RECURSIVE sort_keys(_, _, _)
sort_keys(lp, perm, ks) ==
    IF ks = {} THEN <<>>
    ELSE LET first == CHOOSE j \in ks : \A k \in ks \ {j} : Before(lp, perm, j, k)
         IN  <<lp[first]>> \o sort_keys(lp, perm, ks \ {first})

\* log_pointers.values().cloned().collect(); bounds.sort()
sorted_bounds(lp, perm) == sort_keys(lp, perm, {k \in Keys : lp[k] # NoBound})

\* Vec::drain(b..e), 0-based, e exclusive; the caller checks b <= e <= len
drain(buf, b, e) == SubSeq(buf, 1, b) \o SubSeq(buf, e + 1, Len(buf))

\* the loop at kvs.rs:271-280 from the i-th bound on, then the final drain.
\* A usize subtraction that underflows, or a drain range outside the buffer,
\* panics (the wrapped value of a release build is rejected by the next drain).
RECURSIVE drain_loop(_, _, _, _, _)
drain_loop(buf, bounds, i, begin, drain_size) ==
    IF i > Len(bounds)
    THEN IF begin > Len(buf) THEN [buf |-> buf, panic |-> TRUE]
         ELSE [buf |-> drain(buf, begin, Len(buf)), panic |-> FALSE]
    ELSE LET end == bounds[i].begin - drain_size
         IN  IF end < 0 \/ begin > end \/ end > Len(buf)
             THEN [buf |-> buf, panic |-> TRUE]
             ELSE LET size == drain_size + (end - begin)
                      nb == bounds[i].end + 1 - size
                  IN  IF nb < 0 THEN [buf |-> buf, panic |-> TRUE]
                      ELSE drain_loop(drain(buf, begin, end), bounds, i + 1, nb, size)

\* KvStore::compact_log
compact_log(st, perm) ==
    IF st.actions < COMPACTION_SIZE THEN st
    ELSE LET st1 == IF st.dirty THEN read_log(st) ELSE st
         IN  IF st1.out = "Err" THEN st1
             ELSE LET d == drain_loop(st1.file, sorted_bounds(st1.log_pointers, perm), 1, 0, 0)
                  IN  IF d.panic THEN [st1 EXCEPT !.out = "Panic"]
                      ELSE [st1 EXCEPT !.file = d.buf]

\* write_log as it would be with the file opened without append(true): the
\* record is written at offset 0 of the emptied file
append_log_overwrite(st, data) ==
    [st EXCEPT !.actions = Len(st.file), !.file = writeln(<<>>, to_string(data))]

\* the state between the append and the call of compact_log (kvs.rs:302-320)
append_log(st, data) ==
    [st EXCEPT !.actions = Len(st.file), !.file = writeln(st.file, to_string(data))]

\* KvStore::write_log
write_log(st, data, perm) == compact_log(append_log(st, data), perm)

\* does this call of write_log rewrite the file (reach kvs.rs:286)?
compacts(st, data, perm) ==
    /\ Len(st.file) >= COMPACTION_SIZE
    /\ write_log(st, data, perm).out = "Ok"

-----------------------------------------------------------------------------
(* The public methods, as functions of the store; out is the result *)

\* KvStore::set
set(st, key, val, perm) ==
    LET st1 == write_log(st, SetCmd(key, val), perm)
    IN  IF st1.out = "Ok" THEN [st1 EXCEPT !.dirty = TRUE] ELSE st1

\* get as it would be if it only read: no Get record is written
get_nolog(st, key, perm) ==
    LET st1 == read_log(st)
    IN  IF st1.out = "Err" THEN st1 ELSE [st1 EXCEPT !.out = st1.map[key]]

\* KvStore::get; out is the value, None, "Err" or "Panic"
get(st, key, perm) ==
    LET st1 == read_log(st)
    IN  IF st1.out = "Err" THEN st1
        ELSE IF st1.map[key] = None THEN [st1 EXCEPT !.out = None]
        ELSE LET st2 == write_log(st1, GetCmd(key), perm)
             IN  IF st2.out = "Ok" THEN [st2 EXCEPT !.out = st1.map[key]] ELSE st2

\* KvStore::remove; out is "Ok", "KeyNotFound", "Err" or "Panic"
remove(st, key, perm) ==
    LET st1 == read_log(st)
    IN  IF st1.out = "Err" THEN st1
        ELSE IF st1.map[key] = None THEN [st1 EXCEPT !.out = "KeyNotFound"]
        ELSE LET st2 == write_log([st1 EXCEPT !.map[key] = None], RmCmd(key), perm)
             IN  IF st2.out = "Ok" THEN [st2 EXCEPT !.dirty = TRUE] ELSE st2

\* what get(key) finds for key when called on st (kvs.rs:137-143)
GetView(st, key) ==
    LET st1 == read_log(st)
    IN  IF st1.out = "Err" THEN "Err" ELSE st1.map[key]

Views(st) == [k \in Keys |-> GetView(st, k)]

-----------------------------------------------------------------------------
(* The calls as steps of the program *)

InstallKv(st) ==
    /\ file' = st.file
    /\ map' = st.map
    /\ dirty' = st.dirty
    /\ log_pointers' = st.log_pointers
    /\ actions' = st.actions
    /\ status' = IF st.out = "Panic" THEN "panicked"
                 ELSE IF st.out = "IoErr" THEN "failed" ELSE "running"

\* a call made directly on the KvStore, outside any pool, server or shared handle
Install(st) ==
    /\ InstallKv(st)
    /\ UNCHANGED <<poolVars, srvVars, shVars, exVars>>

\* the record kept of a call: mid is the store as compact_log finds it
Call(op, key, val, st, mid, rewrote) ==
    [op |-> op, key |-> key, val |-> val, out |-> st.out,
     preFile |-> file, preView |-> Views(Store),
     midFile |-> mid.file, midView |-> Views(mid), compacted |-> rewrote]

InitKv ==
    /\ file = <<>>
    /\ map = [k \in Keys |-> None]
    /\ dirty = TRUE
    /\ log_pointers = [k \in Keys |-> NoBound]
    /\ actions = 0
    /\ status = "running"
    /\ abs = [k \in Keys |-> None]
    /\ last = [op |-> "open", key |-> None, val |-> None, out |-> "Ok",
               preFile |-> <<>>, preView |-> [k \in Keys |-> None],
               midFile |-> <<>>, midView |-> [k \in Keys |-> None],
               compacted |-> FALSE]

SetCall(key, val, perm) ==
    /\ status = "running"
    /\ Len(file) + 4 <= MaxLogLen
    /\ LET st == set(Store, key, val, perm)
       IN  /\ Install(st)
           /\ abs' = IF st.out = "Ok" THEN [abs EXCEPT ![key] = val] ELSE abs
           /\ last' = Call("set", key, val, st, append_log(Store, SetCmd(key, val)),
                           compacts(Store, SetCmd(key, val), perm))

GetCall(key, perm) ==
    /\ status = "running"
    /\ Len(file) + 3 <= MaxLogLen
    /\ LET st == get(Store, key, perm)
           st1 == read_log(Store)
           wrote == st1.out = "Ok" /\ st1.map[key] # None
       IN  /\ Install(st)
           /\ abs' = abs
           /\ last' = Call("get", key, None, st,
                           IF wrote THEN append_log(st1, GetCmd(key)) ELSE st1,
                           wrote /\ compacts(st1, GetCmd(key), perm))

RemoveCall(key, perm) ==
    /\ status = "running"
    /\ Len(file) + 3 <= MaxLogLen
    /\ LET st == remove(Store, key, perm)
           st1 == read_log(Store)
           wrote == st1.out = "Ok" /\ st1.map[key] # None
           st2 == [st1 EXCEPT !.map[key] = None]
       IN  /\ Install(st)
           /\ abs' = IF st.out = "Ok" THEN [abs EXCEPT ![key] = None] ELSE abs
           /\ last' = Call("remove", key, None, st,
                           IF wrote THEN append_log(st2, RmCmd(key)) ELSE st1,
                           wrote /\ compacts(st2, RmCmd(key), perm))

NextKv ==
    \/ \E key \in Keys, val \in Vals, perm \in Perms : SetCall(key, val, perm)
    \/ \E key \in Keys, perm \in Perms : GetCall(key, perm)
    \/ \E key \in Keys, perm \in Perms : RemoveCall(key, perm)

-----------------------------------------------------------------------------
(* Properties of KvStore, read off the record of the last call *)

\* C1: every get(K) returns the value of the last set(K, _) that returned Ok and
\* was not followed by a remove(K) that returned Ok, and None if there is none
C1_GetReturnsLastSet ==
    last.op = "get" => last.out = abs[last.key]

\* C2: after remove(k) has returned Ok, get(k) finds k unbound
C2_RemoveUnbinds ==
    (last.op = "remove" /\ last.out = "Ok") => GetView(Store, last.key) = None

\* C3: after set(k, v) has returned Ok, get(k) finds v
C3_SetBinds ==
    (last.op = "set" /\ last.out = "Ok") => GetView(Store, last.key) = last.val

\* C4: remove(K) of an unbound K returns KeyNotFound, leaves the log file as it
\* was and K unbound; and after remove(K) has returned Ok a second remove(K)
\* returns KeyNotFound
C4_RemoveUnboundFails ==
    /\ (last.op = "remove" /\ last.preView[last.key] = None) =>
          /\ last.out = "KeyNotFound"
          /\ file = last.preFile
          /\ GetView(Store, last.key) = None
    /\ (last.op = "remove" /\ last.out = "Ok") =>
          \A perm \in Perms : remove(Store, last.key, perm).out = "KeyNotFound"

\* C5: a KvStore opened on the directory of a dropped store finds, for every
\* key, what the dropped store's get found
C5_ReopenSameState ==
    last.op = "open" => \A k \in Keys : GetView(Store, k) = last.preView[k]

\* C6: when a call has compacted the log, get finds for every key what it would
\* have found on the store as compact_log was entered
C6_CompactionPreservesGets ==
    last.compacted => \A k \in Keys : GetView(Store, k) = last.midView[k]

C8_SetIdempotent ==
    \A k \in Keys, v \in Vals, p \in Perms, q \in Perms :
        LET once == set(Store, k, v, p)
            twice == set(once, k, v, q)
        IN  (status = "running" /\ once.out = "Ok" /\ twice.out = "Ok")
                => Views(twice) = Views(once)

-----------------------------------------------------------------------------
(* SharedQueueThreadPool: one step per access to the queue, the mutex or    *)
(* the channel.  Worker threads are numbered: 1..threads are those created  *)
(* by new, the following ones are the replacements the supervisor spawns.   *)

NoThread == 0
NoTask == [id |-> 0, panics |-> FALSE]
Workers == 1..(MaxPool + MaxTasks)
Tasks == 1..MaxTasks
Shutdown == [kind |-> "Shutdown", id |-> 0, panics |-> FALSE]
Job(id, panics) == [kind |-> "Job", id |-> id, panics |-> panics]

\* worker threads that exist and have not ended
Live == {w \in Workers : wpc[w] \in {"lock", "pop", "run"}}
\* worker threads created so far
Created == {w \in Workers : wpc[w] # "none"}

\* state of the module while no pool exists
NoPool ==
    /\ threads = 0
    /\ jobs = <<>>
    /\ lock = NoThread
    /\ chan = <<>>
    /\ wpc = [w \in Workers |-> "none"]
    /\ wtask = [w \in Workers |-> NoTask]
    /\ spc = "none"
    /\ mpc = "none"
    /\ hidx = 0
    /\ nspawned = 0
    /\ npanics = 0
    /\ nruns = [t \in Tasks |-> 0]

\* the store is dropped and a new KvStore is opened on the same directory
Reopen ==
    /\ status = "running"
    /\ last.op # "open"
    /\ Install(open(file))
    /\ abs' = abs
    /\ last' = Call("open", None, None, open(file), Store, FALSE)

NextReopen == NextKv \/ Reopen

\* state of the module while no server exists
NoConn == [kind |-> "None", key |-> None, out |-> "NoCall", reply |-> <<>>,
           closed |-> FALSE, exit |-> 0 - 1]

NoServer ==
    /\ srv = "none"
    /\ conn = NoConn
    /\ nconn = 0

\* state of the module while no SharedKvsEngine exists
\* the threads that hold a clone of the SharedKvsEngine
Threads == {1, 2}
NoReq == [cmd |-> DecodeError, perm |-> <<>>, val |-> None]

NoShared ==
    /\ elock = NoThread
    /\ tpc = [t \in Threads |-> "none"]
    /\ treq = [t \in Threads |-> NoReq]
    /\ tres = [t \in Threads |-> "NoResult"]
    /\ tn = [t \in Threads |-> 0]
    /\ tref = [t \in Threads |-> "NoResult"]
    /\ ref = open(<<>>)

\* state of the module while no ThreadPool of exercise2 exists
ExWorkers == 1..MaxExPool
ExTasks == 1..MaxExTasks
NoExWorker == [pc |-> "none", inbox |-> <<>>, token |-> FALSE, task |-> 0]
NoExTask == [st |-> "none", panics |-> FALSE]
\* removed is a local of NaiveThreadPool::clear only
ExIdle == [pc |-> "idle", caller |-> "none", full |-> FALSE, i |-> 0, n |-> 0,
           cont |-> TRUE, removed |-> 0]

NoExercise ==
    /\ xpool = [avail |-> <<>>, working |-> <<>>, recv |-> <<>>]
    /\ xmain = [ExIdle EXCEPT !.pc = "none"]
    /\ xwk = [w \in ExWorkers |-> NoExWorker]
    /\ xtask = [t \in ExTasks |-> NoExTask]

\* a store opened on an empty directory; no pool, no server, no shared handle
Init == InitKv /\ NoPool /\ NoServer /\ NoShared /\ NoExercise

Spec == Init /\ [][NextKv]_vars

\* the same calls, with the store dropped and opened again at any point
SpecReopen == Init /\ [][NextReopen]_vars

\* the KvStore is not touched by the pool's steps
KvIdle == UNCHANGED <<kvVars, srvVars, shVars, exVars>>

\* SharedQueueThreadPool::new(n): n workers at the top of run, the supervisor in help
InitPool ==
    /\ threads \in 0..MaxPool
    /\ jobs = <<>>
    /\ lock = NoThread
    /\ chan = <<>>
    /\ wpc = [w \in Workers |-> IF w <= threads THEN "lock" ELSE "none"]
    /\ wtask = [w \in Workers |-> NoTask]
    /\ spc = "recv"
    /\ mpc = "running"
    /\ hidx = 0
    /\ nspawned = 0
    /\ npanics = 0
    /\ nruns = [t \in Tasks |-> 0]

\* a queue in which spawn puts the new task in front
push_front(q, x) == <<x>> \o q

\* VecDeque::push_back
push_back(q, x) == Append(q, x)

\* SharedQueueThreadPool::spawn; the task either returns or panics when run
Spawn(panics) ==
    /\ mpc = "running"
    /\ nspawned < MaxTasks
    /\ lock = NoThread
    /\ jobs' = push_back(jobs, Job(nspawned + 1, panics))
    /\ nspawned' = nspawned + 1
    /\ UNCHANGED <<threads, lock, chan, wpc, wtask, spc, mpc, hidx, npanics, nruns>>
    /\ KvIdle

\* Worker::run, self.jobs.lock()
WorkerLock(w) ==
    /\ wpc[w] = "lock"
    /\ lock = NoThread
    /\ lock' = w
    /\ wpc' = [wpc EXCEPT ![w] = "pop"]
    /\ UNCHANGED <<threads, jobs, chan, wtask, spc, mpc, hidx, nspawned, npanics, nruns>>
    /\ KvIdle

\* Worker::run, pop_front() is None: the guard is dropped and the loop goes round
WorkerPopEmpty(w) ==
    /\ wpc[w] = "pop"
    /\ jobs = <<>>
    /\ lock' = NoThread
    /\ wpc' = [wpc EXCEPT ![w] = "lock"]
    /\ UNCHANGED <<threads, jobs, chan, wtask, spc, mpc, hidx, nspawned, npanics, nruns>>
    /\ KvIdle

\* a queue whose front item is read and left in place
front_kept(q) == q

\* the queue as VecDeque::pop_front leaves it
pop_front(q) == Tail(q)

\* run as it would be without drop(job_guard): the guard lives through the task
guard_kept_in_task(w) == w

\* owner of the jobs mutex as avail_task() is called: drop(job_guard) has run
guard_owner_in_task(w) == NoThread

\* Worker::run, Some(Job): the guard is dropped before the task is called
WorkerPopJob(w) ==
    /\ wpc[w] = "pop"
    /\ jobs # <<>>
    /\ Head(jobs).kind = "Job"
    /\ jobs' = pop_front(jobs)
    /\ lock' = guard_owner_in_task(w)
    /\ wtask' = [wtask EXCEPT ![w] = [id |-> Head(jobs).id, panics |-> Head(jobs).panics]]
    /\ wpc' = [wpc EXCEPT ![w] = "run"]
    /\ nruns' = [nruns EXCEPT ![Head(jobs).id] = @ + 1]
    /\ UNCHANGED <<threads, chan, spc, mpc, hidx, nspawned, npanics>>
    /\ KvIdle

\* Drop for Worker as it would be without the test of thread::panicking()
drop_msg_shutdown(panicking) == "Shutdown"

\* what Drop for Worker sends: Panic while unwinding, Shutdown otherwise
drop_msg(panicking) == IF panicking THEN "Panic" ELSE "Shutdown"

\* Worker::run, Some(Shutdown): return; the thread's Worker is dropped
WorkerPopShutdown(w) ==
    /\ wpc[w] = "pop"
    /\ jobs # <<>>
    /\ Head(jobs).kind = "Shutdown"
    /\ jobs' = pop_front(jobs)
    /\ lock' = NoThread
    /\ chan' = Append(chan, drop_msg(FALSE))
    /\ wpc' = [wpc EXCEPT ![w] = "done"]
    /\ UNCHANGED <<threads, wtask, spc, mpc, hidx, nspawned, npanics, nruns>>
    /\ KvIdle

\* avail_task() returns: the loop goes round
TaskReturns(w) ==
    /\ wpc[w] = "run"
    /\ ~wtask[w].panics
    /\ wtask' = [wtask EXCEPT ![w] = NoTask]
    /\ wpc' = [wpc EXCEPT ![w] = "lock"]
    /\ UNCHANGED <<threads, jobs, lock, chan, spc, mpc, hidx, nspawned, npanics, nruns>>
    /\ KvIdle

\* avail_task() panics: the thread unwinds, its Worker is dropped, the thread ends
TaskPanics(w) ==
    /\ wpc[w] = "run"
    /\ wtask[w].panics
    /\ wtask' = [wtask EXCEPT ![w] = NoTask]
    /\ chan' = Append(chan, drop_msg(TRUE))
    /\ wpc' = [wpc EXCEPT ![w] = "done"]
    /\ npanics' = npanics + 1
    /\ UNCHANGED <<threads, jobs, lock, spc, mpc, hidx, nspawned, nruns>>
    /\ KvIdle

\* Worker::help, try_recv() is Ok(Panic)
SupRecvPanic ==
    /\ spc = "recv"
    /\ chan # <<>>
    /\ Head(chan) = "Panic"
    /\ chan' = Tail(chan)
    /\ spc' = "spawn"
    /\ UNCHANGED <<threads, jobs, lock, wpc, wtask, mpc, hidx, nspawned, npanics, nruns>>
    /\ KvIdle

\* help as it would be if it took the Panic and started no thread
replacement_none(w) == "none"

\* the thread the supervisor starts on a Panic: a worker at the top of run
replacement(w) == "lock"

\* Worker::help, thread::spawn of the replacement worker
SupSpawn ==
    /\ spc = "spawn"
    /\ LET w == CHOOSE x \in Workers : wpc[x] = "none" /\ \A y \in Workers : y < x => wpc[y] # "none"
       IN  wpc' = [wpc EXCEPT ![w] = replacement(w)]
    /\ spc' = "recv"
    /\ UNCHANGED <<threads, jobs, lock, chan, wtask, mpc, hidx, nspawned, npanics, nruns>>
    /\ KvIdle

\* Worker::help, try_recv() is Ok(Shutdown): return; the supervisor's Worker is dropped
SupRecvShutdown ==
    /\ spc = "recv"
    /\ chan # <<>>
    /\ Head(chan) = "Shutdown"
    /\ chan' = Append(Tail(chan), drop_msg(FALSE))
    /\ spc' = "done"
    /\ UNCHANGED <<threads, jobs, lock, wpc, wtask, mpc, hidx, nspawned, npanics, nruns>>
    /\ KvIdle

\* Drop for SharedQueueThreadPool: lock, push threads Shutdown items, unlock
DropPool ==
    /\ mpc = "running"
    /\ lock = NoThread
    /\ jobs' = jobs \o [i \in 1..threads |-> Shutdown]
    /\ mpc' = "waiting"
    /\ hidx' = 1
    /\ UNCHANGED <<threads, lock, chan, wpc, wtask, spc, nspawned, npanics, nruns>>
    /\ KvIdle

\* handles[i] for i in 1..threads is worker i, handles[threads + 1] the supervisor
is_finished(i) == IF i <= threads THEN wpc[i] = "done" ELSE spc = "done"

\* Drop for SharedQueueThreadPool: the loop on handle.is_finished() ends for one handle
DropWait ==
    /\ mpc = "waiting"
    /\ is_finished(hidx)
    /\ hidx' = hidx + 1
    /\ mpc' = IF hidx = threads + 1 THEN "dropped" ELSE "waiting"
    /\ UNCHANGED <<threads, jobs, lock, chan, wpc, wtask, spc, nspawned, npanics, nruns>>
    /\ KvIdle

Supervisor == SupRecvPanic \/ SupSpawn \/ SupRecvShutdown

NextPool ==
    \/ \E panics \in BOOLEAN : Spawn(panics)
    \/ \E w \in Workers : WorkerLock(w)
    \/ \E w \in Workers : WorkerPopEmpty(w)
    \/ \E w \in Workers : WorkerPopJob(w)
    \/ \E w \in Workers : WorkerPopShutdown(w)
    \/ \E w \in Workers : TaskReturns(w)
    \/ \E w \in Workers : TaskPanics(w)
    \/ SupRecvPanic
    \/ SupSpawn
    \/ SupRecvShutdown
    \/ DropPool
    \/ DropWait

\* the pool alone, on a store that is left as opened
InitPoolSpec == InitKv /\ InitPool /\ NoServer /\ NoShared /\ NoExercise

SpecPool == InitPoolSpec /\ [][NextPool]_vars

\* the supervisor thread is scheduled fairly
SpecPoolFair == SpecPool /\ WF_vars(SupRecvPanic) /\ WF_vars(SupSpawn)

-----------------------------------------------------------------------------
(* Properties of SharedQueueThreadPool *)

\* Panic messages sent and not yet answered by a thread::spawn of the supervisor
PendingPanics ==
    Cardinality({i \in DOMAIN chan : chan[i] = "Panic"}) + (IF spc = "spawn" THEN 1 ELSE 0)

\* C9: until drop is called, the live workers plus the Panic signals the
\* supervisor has not yet answered are threads, and there are never more than
\* threads live workers
C9_LivePlusPanicsIsN ==
    mpc = "running" =>
        /\ Cardinality(Live) + PendingPanics = threads
        /\ Cardinality(Live) <= threads

\* a task has panicked and the replacement worker runs, before any drop
C9_Witness ==
    /\ mpc = "running"
    /\ npanics > 0
    /\ \E w \in Live : w > threads

\* C10: whenever fewer than threads workers are live and drop has not been
\* called, later threads workers are live again (or drop has been called)
C10_WorkersReturnToN ==
    (mpc = "running" /\ Cardinality(Live) < threads)
        ~> (Cardinality(Live) = threads \/ mpc # "running")

\* every task given to spawn has panicked and all threads workers are live again
C10_Witness ==
    /\ mpc = "running"
    /\ threads = MaxPool
    /\ npanics = MaxTasks
    /\ Cardinality(Live) = threads

\* C11: once the drop of the pool has returned, no worker thread is left: the
\* threads workers created by new and every replacement worker have ended, and
\* none is executing a task
C11_DropJoinsEveryWorker ==
    mpc = "dropped" => Live = {}

-----------------------------------------------------------------------------
(* I/O failures inside write_log and compact_log.  io names the system call *)
(* that fails: the open or the writeln of the append (kvs.rs:302-317), the  *)
(* read, the truncating open or the write of compact_log (kvs.rs:257-293).  *)

IoFaults == {"append_open", "append_write", "compact_read", "compact_open", "compact_write"}

\* compact_log when the call named by io fails; truncate(true) has emptied the
\* file by the time write is called
compact_log_io(st, perm, io) ==
    IF st.actions < COMPACTION_SIZE THEN st
    ELSE LET st1 == IF st.dirty THEN read_log(st) ELSE st
         IN  IF st1.out = "Err" THEN st1
             ELSE IF io = "compact_read" THEN [st1 EXCEPT !.out = "IoErr"]
             ELSE LET d == drain_loop(st1.file, sorted_bounds(st1.log_pointers, perm), 1, 0, 0)
                  IN  IF d.panic THEN [st1 EXCEPT !.out = "Panic"]
                      ELSE IF io = "compact_open" THEN [st1 EXCEPT !.out = "IoErr"]
                      ELSE IF io = "compact_write"
                      THEN [st1 EXCEPT !.file = <<>>, !.out = "IoErr"]
                      ELSE [st1 EXCEPT !.file = d.buf]

\* write_log when the call named by io fails
write_log_io(st, data, perm, io) ==
    IF io = "append_open" THEN [st EXCEPT !.out = "IoErr"]
    ELSE IF io = "append_write" THEN [st EXCEPT !.actions = Len(st.file), !.out = "IoErr"]
    ELSE compact_log_io(append_log(st, data), perm, io)

\* KvStore::set, KvStore::get and KvStore::remove over a failing write_log
set_io(st, key, val, perm, io) ==
    LET st1 == write_log_io(st, SetCmd(key, val), perm, io)
    IN  IF st1.out = "Ok" THEN [st1 EXCEPT !.dirty = TRUE] ELSE st1

get_io(st, key, perm, io) ==
    LET st1 == read_log(st)
    IN  IF st1.out = "Err" THEN st1
        ELSE IF st1.map[key] = None THEN [st1 EXCEPT !.out = None]
        ELSE LET st2 == write_log_io(st1, GetCmd(key), perm, io)
             IN  IF st2.out = "Ok" THEN [st2 EXCEPT !.out = st1.map[key]] ELSE st2

remove_io(st, key, perm, io) ==
    LET st1 == read_log(st)
    IN  IF st1.out = "Err" THEN st1
        ELSE IF st1.map[key] = None THEN [st1 EXCEPT !.out = "KeyNotFound"]
        ELSE LET st2 == write_log_io([st1 EXCEPT !.map[key] = None], RmCmd(key), perm, io)
             IN  IF st2.out = "Ok" THEN [st2 EXCEPT !.dirty = TRUE] ELSE st2

\* the store as the failing call leaves the append: unchanged when the append
\* itself failed, with the record appended when compact_log failed
mid_io(st, data, io) ==
    IF io \in {"append_open", "append_write"} THEN st ELSE append_log(st, data)

\* the calls in which the failure happens (the result is the I/O error); the
\* caller makes no further call on the store after an I/O error
SetCallIo(key, val, perm, io) ==
    /\ status = "running"
    /\ Len(file) + 4 <= MaxLogLen
    /\ LET st == set_io(Store, key, val, perm, io)
       IN  /\ st.out = "IoErr"
           /\ Install(st)
           /\ abs' = abs
           /\ last' = Call("set", key, val, st, mid_io(Store, SetCmd(key, val), io), FALSE)

GetCallIo(key, perm, io) ==
    /\ status = "running"
    /\ Len(file) + 3 <= MaxLogLen
    /\ LET st == get_io(Store, key, perm, io)
       IN  /\ st.out = "IoErr"
           /\ Install(st)
           /\ abs' = abs
           /\ last' = Call("get", key, None, st,
                           mid_io(read_log(Store), GetCmd(key), io), FALSE)

RemoveCallIo(key, perm, io) ==
    /\ status = "running"
    /\ Len(file) + 3 <= MaxLogLen
    /\ LET st == remove_io(Store, key, perm, io)
           st1 == read_log(Store)
       IN  /\ st.out = "IoErr"
           /\ Install(st)
           /\ abs' = abs
           /\ last' = Call("remove", key, None, st,
                           mid_io([st1 EXCEPT !.map[key] = None], RmCmd(key), io), FALSE)

NextIo ==
    \/ NextKv
    \/ \E key \in Keys, val \in Vals, perm \in Perms, io \in IoFaults : SetCallIo(key, val, perm, io)
    \/ \E key \in Keys, perm \in Perms, io \in IoFaults : GetCallIo(key, perm, io)
    \/ \E key \in Keys, perm \in Perms, io \in IoFaults : RemoveCallIo(key, perm, io)

\* the calls of Spec, any of which may meet an I/O failure
SpecIo == Init /\ [][NextIo]_vars

\* C19: when the append of a set or a remove fails with an I/O error, the call
\* returns the error and get finds for every key what it found before the call
C19_FailedAppendKeepsState ==
    (last.op \in {"set", "remove"} /\ last.out = "IoErr" /\ last.midFile = last.preFile)
        => Views(Store) = last.preView

\* C20: when compact_log fails with an I/O error, the log file holds what it
\* held as compact_log was entered
C20_FailedCompactionKeepsLog ==
    (last.out = "IoErr" /\ last.midFile # last.preFile) => file = last.midFile

-----------------------------------------------------------------------------
(* A process that stops in the middle of an append *)

\* does a replay of the log f from its first byte meet a record that does not decode?
corrupt(f) == read_log(open(f)).out = "Err"

\* the process stops inside the writeln of set(key, val) (kvs.rs:317) when n
\* bytes of the record, and not its newline, have reached the file; a new
\* process then opens a KvStore on the directory.  The model follows the
\* interrupted appends to logs that replay and end in a complete record.
clean(f) == ~corrupt(f) /\ (IF f = <<>> THEN TRUE ELSE f[Len(f)] = NL)

Crash(key, val, n) ==
    /\ Len(file) + 4 <= MaxLogLen
    /\ clean(file)
    /\ LET torn == file \o SubSeq(to_string(SetCmd(key, val)), 1, n)
       IN  /\ Install(open(torn))
           /\ abs' = abs
           /\ last' = Call("crash", key, val, open(torn), open(torn), FALSE)

NextCrash ==
    \/ NextKv
    \/ Reopen
    \/ \E key \in Keys, val \in Vals, n \in 1..3 : Crash(key, val, n)

\* the calls of SpecReopen, with processes that stop inside an append
SpecCrash == Init /\ [][NextCrash]_vars

\* C17: when a process has stopped inside an append to a log that replays, open
\* succeeds, get finds for every key what it finds on the log without the
\* partial record, and the log that a following set leaves replays without error
C17_TornTailIsIgnored ==
    (last.op = "crash" /\ ~corrupt(last.preFile)) =>
        /\ last.out = "Ok"
        /\ Views(Store) = Views(open(last.preFile))
        /\ \A k \in Keys, v \in Vals, p \in Perms :
              LET st == set(Store, k, v, p)
              IN  st.out = "Ok" => ~corrupt(st.file)

\* C18: open on a directory whose log holds a complete record that does not
\* decode returns an error
C18_OpenRejectsCorruptLog ==
    (last.op = "open" /\ corrupt(file)) => last.out = "Err"

-----------------------------------------------------------------------------
(* KvsServer::serve and the kvs-client process of each connection.  What is  *)
(* written to the TcpStream is a sequence of strings, one per write.        *)

KeyNotFoundMsg == "Key not found"

\* handle_request that sends nothing when remove finds the key unbound
handle_request_silent(cmd, out) ==
    CASE out = "Panic" -> [reply |-> <<>>, ret |-> "Panic"]
      [] cmd.tag = "Get" ->
           IF out = None THEN [reply |-> <<KeyNotFoundMsg>>, ret |-> "Ok"]
           ELSE IF out \in Vals THEN [reply |-> <<out>>, ret |-> "Ok"]
           ELSE [reply |-> <<>>, ret |-> "Err"]
      [] cmd.tag = "Set" ->
           IF out = "Ok" THEN [reply |-> <<>>, ret |-> "Ok"]
           ELSE [reply |-> <<>>, ret |-> "Err"]
      [] OTHER -> [reply |-> <<>>, ret |-> "Ok"]

\* KvsServer::handle_request on the engine result out: what it writes to the
\* stream and what it returns; the stream is closed by shutdown or by its drop
handle_request(cmd, out) ==
    CASE out = "Panic" -> [reply |-> <<>>, ret |-> "Panic"]
      [] cmd.tag = "Get" ->
           IF out = None THEN [reply |-> <<KeyNotFoundMsg>>, ret |-> "Ok"]
           ELSE IF out \in Vals THEN [reply |-> <<out>>, ret |-> "Ok"]
           ELSE [reply |-> <<>>, ret |-> "Err"]
      [] cmd.tag = "Set" ->
           IF out = "Ok" THEN [reply |-> <<>>, ret |-> "Ok"]
           ELSE [reply |-> <<>>, ret |-> "Err"]
      [] OTHER ->
           IF out = "KeyNotFound" THEN [reply |-> <<KeyNotFoundMsg>>, ret |-> "Ok"]
           ELSE [reply |-> <<>>, ret |-> "Ok"]

\* KvsClient::send: Some(what was read up to the end of the stream) or None
send(cmd, reply) ==
    CASE cmd.tag = "Get" -> [some |-> TRUE, buf |-> reply]
      [] cmd.tag = "Rm" -> IF reply # <<>> THEN [some |-> TRUE, buf |-> reply]
                           ELSE [some |-> FALSE, buf |-> <<>>]
      [] OTHER -> [some |-> FALSE, buf |-> <<>>]

\* exit code of kvs-client's main
client_main(cmd, reply) ==
    IF send(cmd, reply).some /\ cmd.tag = "Rm" THEN 1 ELSE 0

\* the call handle_request makes on the engine; io names the system call of
\* the engine that fails, "ok" when none does
engine_call(cmd, perm, io) ==
    CASE cmd.tag = "Set" -> set_io(Store, cmd.key, cmd.value, perm, io)
      [] cmd.tag = "Get" -> get_io(Store, cmd.key, perm, io)
      [] OTHER -> remove_io(Store, cmd.key, perm, io)

\* what clients write to a connection: the encoding of a command, or bytes
\* that are not one
Commands ==
    {SetCmd(k, v) : k \in Keys, v \in Vals} \cup {GetCmd(k) : k \in Keys}
        \cup {RmCmd(k) : k \in Keys}
RequestBytes == {to_string(c) : c \in Commands} \cup {<<>>, <<"S", "k1">>}

\* KvsServer::init followed by serve, up to the first accept
InitServer ==
    /\ srv = "accept"
    /\ conn = NoConn
    /\ nconn = 0

\* one turn of the loop of serve whose read succeeds, and the client's exit
ServeConn(bytes, perm, io) ==
    /\ srv = "accept"
    /\ nconn < MaxConns
    /\ Len(file) + 4 <= MaxLogLen
    /\ nconn' = nconn + 1
    /\ UNCHANGED <<abs, last, poolVars, shVars, exVars>>
    /\ LET cmd == from_slice(bytes)
       IN  IF cmd.tag = "Error"
           THEN /\ io = "ok"
                /\ srv' = "returned"
                /\ conn' = [kind |-> "Error", key |-> None, out |-> "NoCall",
                            reply |-> <<>>, closed |-> TRUE, exit |-> 0 - 1]
                /\ UNCHANGED <<file, map, dirty, log_pointers, actions, status>>
           ELSE LET st == engine_call(cmd, perm, io)
                    h == handle_request(cmd, st.out)
                IN  /\ io # "ok" => st.out = "IoErr"
                    /\ InstallKv(st)
                    /\ srv' = CASE h.ret = "Ok" -> "accept"
                                [] h.ret = "Err" -> "returned"
                                [] OTHER -> "panicked"
                    /\ conn' = [kind |-> cmd.tag, key |-> cmd.key, out |-> st.out,
                                reply |-> h.reply, closed |-> TRUE,
                                exit |-> client_main(cmd, h.reply)]

\* one turn of the loop of serve whose read fails
ServeReadError ==
    /\ srv = "accept"
    /\ nconn < MaxConns
    /\ nconn' = nconn + 1
    /\ srv' = "returned"
    /\ conn' = [kind |-> "ReadErr", key |-> None, out |-> "NoCall",
                reply |-> <<>>, closed |-> TRUE, exit |-> 0 - 1]
    /\ UNCHANGED <<kvVars, poolVars, shVars, exVars>>

NextServer ==
    \/ \E bytes \in RequestBytes, perm \in Perms, io \in IoFaults \cup {"ok"} :
          ServeConn(bytes, perm, io)
    \/ ServeReadError

\* a server started on an empty directory
InitServerSpec == InitKv /\ NoPool /\ InitServer /\ NoShared /\ NoExercise

SpecServer == InitServerSpec /\ [][NextServer]_vars

\* C12: for every request that decodes the server writes at most once and the
\* connection is closed; it writes nothing when set or remove returned Ok, the
\* value when get found one, and "Key not found" when get found none or remove
\* returned KeyNotFound
C12_OneReplyPerRequest ==
    conn.kind \in {"Set", "Get", "Rm"} =>
        /\ Len(conn.reply) <= 1
        /\ conn.closed
        /\ (conn.kind \in {"Set", "Rm"} /\ conn.out = "Ok") => conn.reply = <<>>
        /\ (conn.kind = "Get" /\ conn.out \in Vals) => conn.reply = <<conn.out>>
        /\ (conn.kind = "Get" /\ conn.out = None) => conn.reply = <<"Key not found">>
        /\ (conn.kind = "Rm" /\ conn.out = "KeyNotFound") => conn.reply = <<"Key not found">>

\* the last connection the server accepts asks to remove an unbound key, on a
\* log that is not empty, and is answered "Key not found"
C12_Witness ==
    /\ conn.kind = "Rm"
    /\ conn.out = "KeyNotFound"
    /\ conn.reply = <<"Key not found">>
    /\ nconn = MaxConns
    /\ file # <<>>

\* C13: whatever happens on a connection, serve does not return: after every
\* connection the server is accepting again
C13_ServeKeepsAccepting ==
    conn.kind # "None" => srv = "accept"

\* C14: kvs-client exits with 0 exactly when the call on the server's engine
\* succeeded
C14_ExitZeroIffSucceeded ==
    conn.kind \in {"Set", "Get", "Rm"} =>
        (conn.exit = 0 <=> conn.out \in {"Ok", None} \cup Vals)

-----------------------------------------------------------------------------
(* SharedKvsEngine: threads that each hold a clone call set, get and remove. *)
(* A call is three steps: lock(), the engine method up to its append to the  *)
(* log, and the rest of the method (compact_log) with the return, where the  *)
(* MutexGuard is dropped.                                                    *)

\* the engine method up to the append: out is "More" when compact_log follows,
\* and the result when the method returns before
op_first(st, cmd) ==
    IF cmd.tag = "Set" THEN [append_log(st, cmd) EXCEPT !.out = "More"]
    ELSE LET st1 == read_log(st)
         IN  IF st1.out = "Err" THEN st1
             ELSE IF st1.map[cmd.key] = None
             THEN [st1 EXCEPT !.out = IF cmd.tag = "Get" THEN None ELSE "KeyNotFound"]
             ELSE IF cmd.tag = "Get" THEN [append_log(st1, cmd) EXCEPT !.out = "More"]
             ELSE [append_log([st1 EXCEPT !.map[cmd.key] = None], cmd) EXCEPT !.out = "More"]

\* the rest of the method: compact_log, then dirty = true (set, remove) or the
\* value val found before the append (get)
op_second(st, cmd, perm, val) ==
    LET st2 == compact_log(st, perm)
    IN  IF st2.out # "Ok" THEN st2
        ELSE IF cmd.tag = "Get" THEN [st2 EXCEPT !.out = val]
        ELSE [st2 EXCEPT !.dirty = TRUE]

\* the engine method as one step, on the store st
seq_call(st, cmd, perm) ==
    CASE cmd.tag = "Set" -> set([st EXCEPT !.out = "Ok"], cmd.key, cmd.value, perm)
      [] cmd.tag = "Get" -> get([st EXCEPT !.out = "Ok"], cmd.key, perm)
      [] OTHER -> remove([st EXCEPT !.out = "Ok"], cmd.key, perm)

\* a lock() that never waits
can_lock_always(t) == TRUE

\* Mutex::lock returns once no thread holds the mutex
can_lock(t) == elock = NoThread

\* a guard that is dropped after the first step of every call
guard_dropped_early(returns) == TRUE

\* the MutexGuard unlocked_engine is dropped when the method returns
guard_dropped(returns) == returns

\* SharedKvsEngine::from on a store opened on an empty directory, and the clones
InitShared ==
    /\ elock = NoThread
    /\ tpc = [t \in Threads |-> "idle"]
    /\ treq = [t \in Threads |-> NoReq]
    /\ tres = [t \in Threads |-> "NoResult"]
    /\ tn = [t \in Threads |-> 0]
    /\ tref = [t \in Threads |-> "NoResult"]
    /\ ref = open(<<>>)

\* number of calls started so far by the threads in S
RECURSIVE started(_)
started(S) ==
    IF S = {} THEN 0
    ELSE LET t == CHOOSE u \in S : TRUE IN tn[t] + started(S \ {t})

\* self.engine.lock() of a call cmd by thread t
ShLock(t, cmd, perm) ==
    /\ tpc[t] = "idle"
    /\ started(Threads) < MaxOps
    /\ Len(file) + 4 <= MaxLogLen
    /\ can_lock(t)
    /\ elock' = t
    /\ tpc' = [tpc EXCEPT ![t] = "first"]
    /\ treq' = [treq EXCEPT ![t] = [cmd |-> cmd, perm |-> perm, val |-> None]]
    /\ tn' = [tn EXCEPT ![t] = tn[t] + 1]
    /\ ref' = seq_call(ref, cmd, perm)
    /\ tref' = [tref EXCEPT ![t] = seq_call(ref, cmd, perm).out]
    /\ UNCHANGED <<kvVars, poolVars, srvVars, exVars, tres>>

\* thread t runs the engine method up to its append
ShFirst(t) ==
    /\ tpc[t] = "first"
    /\ LET st == op_first(Store, treq[t].cmd)
           returns == st.out # "More"
       IN  /\ InstallKv(st)
           /\ tpc' = [tpc EXCEPT ![t] = IF returns THEN "idle" ELSE "second"]
           /\ treq' = [treq EXCEPT ![t].val =
                          IF returns THEN None ELSE read_log(Store).map[treq[t].cmd.key]]
           /\ tres' = [tres EXCEPT ![t] = IF returns THEN st.out ELSE tres[t]]
           /\ elock' = IF guard_dropped(returns) THEN NoThread ELSE elock
    /\ UNCHANGED <<abs, last, poolVars, srvVars, exVars, tn, tref, ref>>

\* thread t runs compact_log and returns; a panic unwinds and ends the thread
ShSecond(t) ==
    /\ tpc[t] = "second"
    /\ LET st == op_second(Store, treq[t].cmd, treq[t].perm, treq[t].val)
       IN  /\ InstallKv(st)
           /\ tpc' = [tpc EXCEPT ![t] = IF st.out = "Panic" THEN "panicked" ELSE "idle"]
           /\ tres' = [tres EXCEPT ![t] = st.out]
           /\ elock' = NoThread
    /\ UNCHANGED <<abs, last, poolVars, srvVars, exVars, treq, tn, tref, ref>>

NextShared ==
    \/ \E t \in Threads, cmd \in Commands, perm \in Perms : ShLock(t, cmd, perm)
    \/ \E t \in Threads : ShFirst(t)
    \/ \E t \in Threads : ShSecond(t)

InitSharedSpec == InitKv /\ NoPool /\ NoServer /\ InitShared /\ NoExercise

SpecShared == InitSharedSpec /\ [][NextShared]_vars

\* threads between the return of lock() and the return of the engine method
Inside == {t \in Threads : tpc[t] \in {"first", "second"}}

\* C15: at most one thread at a time is inside an engine operation
C15_OneThreadInsideEngine ==
    Cardinality(Inside) <= 1

\* a thread is inside compact_log while another has calls left to make
C15_Witness ==
    \E t \in Threads, u \in Threads :
        /\ t # u
        /\ tpc[t] = "second"
        /\ tpc[u] = "idle"
        /\ started(Threads) < MaxOps
        /\ Len(file) >= COMPACTION_SIZE

-----------------------------------------------------------------------------
(* The log file and the index *)

\* the records of the log f, in order: the decoded lines of a replay
RECURSIVE records(_, _, _)
records(f, i, begin) ==
    IF i > Len(f) THEN <<>>
    ELSE IF f[i] # NL THEN records(f, i + 1, begin)
    ELSE <<from_slice(SubSeq(f, begin + 1, i - 1))>> \o records(f, i + 1, i)

\* C21: between calls, the byte range the index holds for a key lies inside the
\* log file and decodes to a Set record of that key with the value get finds
C21_IndexPointsAtLatestSet ==
    status = "running" =>
        \A k \in Keys :
            log_pointers[k] # NoBound =>
                /\ log_pointers[k].end <= Len(file)
                /\ from_slice(SubSeq(file, log_pointers[k].begin + 1, log_pointers[k].end))
                      = SetCmd(k, GetView(Store, k))

\* C22: right after a compaction the log file holds one Set record for each
\* key that get finds bound, carrying the value get finds, and no other record
C22_CompactedLogIsLatestSets ==
    last.compacted =>
        LET recs == records(file, 1, 0)
        IN  /\ file = <<>> \/ file[Len(file)] = NL
            /\ \A i \in DOMAIN recs :
                  /\ recs[i].tag = "Set"
                  /\ recs[i].value = last.midView[recs[i].key]
                  /\ \A j \in DOMAIN recs : recs[j].key = recs[i].key => j = i
            /\ \A k \in Keys :
                  last.midView[k] \in Vals => \E i \in DOMAIN recs : recs[i].key = k

IsPrefix(a, b) == Len(a) <= Len(b) /\ SubSeq(b, 1, Len(a)) = a

\* C23: every step that changes the log file either appends to it (the old
\* content is a prefix of the new) or is a call that compacts the log
C23_LogIsAppendOnly ==
    [][file' # file => (IsPrefix(file, file') \/ last'.compacted)]_vars

\* a remove has appended its Rm record to a log that is not empty
C23_Witness ==
    /\ last.op = "remove"
    /\ last.out = "Ok"
    /\ last.preFile # <<>>
    /\ ~last.compacted
    /\ file = last.preFile \o <<"R", last.key, NL>>

\* C24: actions counts the mutations since the last compaction: a call that
\* has compacted the log leaves it at zero, and a get, which is no mutation,
\* never compacts the log
C24_MutationCounter ==
    /\ last.compacted => actions = 0
    /\ last.op = "get" => ~last.compacted

-----------------------------------------------------------------------------
(* Further properties of SharedQueueThreadPool *)

\* C25: tasks are popped in the order of their spawn: a worker that pops a
\* task pops one that was given to spawn before every task still in the queue
C25_FifoDequeue ==
    [][\A w \in Workers :
          (wpc[w] = "pop" /\ wpc'[w] = "run") =>
              \A i \in DOMAIN jobs' :
                  jobs'[i].kind = "Job" => wtask'[w].id < jobs'[i].id]_vars

\* a worker of a pool of MaxPool executes the first task while the second and
\* the third wait in the queue, in that order
C25_Witness ==
    /\ threads = MaxPool
    /\ \E w \in Workers : wpc[w] = "run" /\ wtask[w].id = 1
    /\ Len(jobs) = 2
    /\ jobs[1].id = 2
    /\ jobs[2].id = 3

\* C26: a worker that executes a task does not own the mutex of the queue
C26_NoLockWhileRunning ==
    \A w \in Workers : wpc[w] = "run" => lock # w

\* a worker executes a task while another worker owns the mutex
C26_Witness ==
    \E w \in Workers, u \in Workers :
        /\ wpc[w] = "run"
        /\ u # w
        /\ lock = u
        /\ jobs # <<>>

\* C27: once the supervisor has returned from help, no worker is live and no
\* Panic signal is unanswered
C27_SupervisorExitsLast ==
    spc = "done" => (Live = {} /\ PendingPanics = 0)

\* C28: a worker thread that ends sends one message as it ends, Panic when a
\* task panicked and Shutdown when it popped a Shutdown item, and no message
\* is sent by a worker at any other time (the supervisor sends one as it ends)
C28_OneStatusMessagePerWorker ==
    [][/\ \A w \in Workers :
             (wpc[w] # "done" /\ wpc'[w] = "done") =>
                 chan' = Append(chan, IF wpc[w] = "run" THEN "Panic" ELSE "Shutdown")
       /\ Len(chan') > Len(chan) =>
             \E w \in Workers : wpc[w] # "done" /\ wpc'[w] = "done"
       /\ (Len(chan') = Len(chan) /\ chan' # chan) => (spc # "done" /\ spc' = "done")]_vars

\* a worker has ended on a panic and another on a Shutdown item, and both
\* messages are in the channel
C28_Witness ==
    /\ npanics > 0
    /\ \E i \in DOMAIN chan, j \in DOMAIN chan : chan[i] = "Panic" /\ chan[j] = "Shutdown"
    /\ \E w \in Workers, u \in Workers : w # u /\ wpc[w] = "done" /\ wpc[u] = "done"

\* C29: every connection serve has accepted has been given to the thread pool
\* with spawn
C29_AcceptLoopSpawnsHandler ==
    conn.kind # "None" => nspawned = nconn

\* ---------------------------------------------------------------------------
\* ThreadPool of exercise2 (rust/projects/exercises/exercise2/src/thread_pool.rs)
\* ---------------------------------------------------------------------------

\* ThreadPool::new(size): size workers, each blocked in rx.recv(), all of them
\* in availThreads
InitExercise ==
    /\ \E size \in 0..MaxExPool :
        /\ xpool = [avail |-> [i \in 1..size |-> i], working |-> <<>>, recv |-> <<>>]
        /\ xwk = [w \in ExWorkers |->
                    IF w <= size THEN [NoExWorker EXCEPT !.pc = "recv"] ELSE NoExWorker]
    /\ xmain = ExIdle
    /\ \E f \in [ExTasks -> BOOLEAN] :
        xtask = [t \in ExTasks |-> [st |-> "none", panics |-> f[t]]]

ExIdleKv == UNCHANGED <<kvVars, poolVars, srvVars, shVars>>

\* the tasks execute has been called with so far, and the next one
Passed == {t \in ExTasks : xtask[t].st # "none"}
NextTask == Cardinality(Passed) + 1
\* the closure of the task has returned
Completed(t) == xtask[t].st \in {"done", "sent", "received"}
\* the owner of the pool is between two calls
AtCall == xmain.pc \in {"idle", "returned", "failed"}

\* Vec::remove(i), i counted from 0
remove_at(v, i) == SubSeq(v, 1, i) \o SubSeq(v, i + 2, Len(v))

\* execute: a worker is available
ExecuteSend ==
    /\ AtCall /\ NextTask <= MaxExTasks
    /\ xpool.avail # <<>>
    /\ LET w == xpool.avail[Len(xpool.avail)]
           t == NextTask
           rest == SubSeq(xpool.avail, 1, Len(xpool.avail) - 1)
       IN  IF xwk[w].pc = "dead"
           THEN \* workChan.send fails: execute returns the error, the worker
                \* is dropped with the job
                /\ xpool' = [xpool EXCEPT !.avail = rest]
                /\ xtask' = [xtask EXCEPT ![t].st = "refused"]
                /\ xwk' = xwk
           ELSE /\ xpool' = [avail |-> rest,
                             working |-> Append(xpool.working, w),
                             recv |-> Append(xpool.recv, t)]
                /\ xtask' = [xtask EXCEPT ![t].st = "queued"]
                /\ xwk' = [xwk EXCEPT ![w].inbox = Append(@, t)]
    /\ xmain' = ExIdle
    /\ ExIdleKv

\* execute: availThreads.pop() is None, clear(false) is entered
ExecuteClear ==
    /\ AtCall /\ NextTask <= MaxExTasks
    /\ xpool.avail = <<>>
    /\ xtask' = [xtask EXCEPT ![NextTask].st = "refused"]
    /\ xmain' = [pc |-> "loop", caller |-> "execute", full |-> FALSE,
                 i |-> 0, n |-> 0, cont |-> TRUE, removed |-> 0]
    /\ UNCHANGED <<xpool, xwk>>
    /\ ExIdleKv

\* join: clear(true) is entered
Join ==
    /\ AtCall
    /\ xmain' = [pc |-> "loop", caller |-> "join", full |-> TRUE,
                 i |-> 0, n |-> 0, cont |-> TRUE, removed |-> 0]
    /\ UNCHANGED <<xpool, xwk, xtask>>
    /\ ExIdleKv

\* clear: top of the loop, the range 0..workingThreads.len() is evaluated
ClearLoop ==
    /\ xmain.pc = "loop"
    /\ xmain' = [xmain EXCEPT !.pc = "for", !.i = 0, !.n = Len(xpool.working)]
    /\ UNCHANGED <<xpool, xwk, xtask>>
    /\ ExIdleKv

\* clear: one iteration of the for loop, recvChan[i].try_recv()
ClearTry ==
    /\ xmain.pc = "for" /\ xmain.i < xmain.n
    /\ IF xmain.i >= Len(xpool.recv)
       THEN \* index out of bounds: the thread panics
            /\ xmain' = [xmain EXCEPT !.pc = "panicked"]
            /\ UNCHANGED <<xpool, xwk, xtask>>
       ELSE LET t == xpool.recv[xmain.i + 1]
                w == xpool.working[xmain.i + 1]
            IN  IF xtask[t].st = "sent"
                THEN /\ xpool' = [avail |-> Append(xpool.avail, w),
                                  working |-> remove_at(xpool.working, xmain.i),
                                  recv |-> remove_at(xpool.recv, xmain.i)]
                     /\ xwk' = [xwk EXCEPT ![w].token = TRUE]
                     /\ xtask' = [xtask EXCEPT ![t].st = "received"]
                     /\ xmain' = [xmain EXCEPT !.i = @ + 1, !.cont = FALSE]
                ELSE IF xtask[t].st = "lost"
                THEN \* Disconnected: clear returns the error, and so does
                     \* its caller
                     /\ xmain' = [xmain EXCEPT !.pc = "failed"]
                     /\ UNCHANGED <<xpool, xwk, xtask>>
                ELSE \* Empty
                     /\ xmain' = [xmain EXCEPT !.i = @ + 1]
                     /\ UNCHANGED <<xpool, xwk, xtask>>
    /\ ExIdleKv

\* clear returns after a pass although it was told to wait for every thread
may_return_early(cont, full, nrecv) == ~cont \/ nrecv = 0

\* clear: the two return conditions after the for loop
may_return(cont, full, nrecv) == (~cont /\ ~full) \/ nrecv = 0

\* clear: the for loop is over
ClearForEnd ==
    /\ xmain.pc = "for" /\ xmain.i = xmain.n
    /\ xmain' = [xmain EXCEPT !.pc =
            IF may_return(xmain.cont, xmain.full, Len(xpool.recv))
            THEN \* execute goes on to is_worker.unwrap() of None and panics
                 IF xmain.caller = "execute" THEN "panicked" ELSE "returned"
            ELSE "loop"]
    /\ UNCHANGED <<xpool, xwk, xtask>>
    /\ ExIdleKv

\* worker: rx.recv() returns a task
WorkerRecv(w) ==
    /\ xwk[w].pc = "recv" /\ xwk[w].inbox # <<>>
    /\ LET t == Head(xwk[w].inbox)
       IN  /\ xwk' = [xwk EXCEPT ![w].pc = "run", ![w].task = t, ![w].inbox = Tail(@)]
           /\ xtask' = [xtask EXCEPT ![t].st = "running"]
    /\ UNCHANGED <<xpool, xmain>>
    /\ ExIdleKv

\* worker: task() returns
WorkerTaskReturns(w) ==
    /\ xwk[w].pc = "run" /\ ~xtask[xwk[w].task].panics
    /\ xtask' = [xtask EXCEPT ![xwk[w].task].st = "done"]
    /\ xwk' = [xwk EXCEPT ![w].pc = "send"]
    /\ UNCHANGED <<xpool, xmain>>
    /\ ExIdleKv

\* worker: task() panics; the thread ends, its Sender<()> is dropped unsent
WorkerTaskPanics(w) ==
    /\ xwk[w].pc = "run" /\ xtask[xwk[w].task].panics
    /\ xtask' = [xtask EXCEPT ![xwk[w].task].st = "lost"]
    /\ xwk' = [xwk EXCEPT ![w].pc = "dead"]
    /\ UNCHANGED <<xpool, xmain>>
    /\ ExIdleKv

\* worker: tx.send(()), then thread::park() is entered
WorkerSend(w) ==
    /\ xwk[w].pc = "send"
    /\ xtask' = [xtask EXCEPT ![xwk[w].task].st = "sent"]
    /\ xwk' = [xwk EXCEPT ![w].pc = "park"]
    /\ UNCHANGED <<xpool, xmain>>
    /\ ExIdleKv

\* worker: thread::park() returns, with the token of unpark() or spuriously
WorkerUnparked(w) ==
    /\ xwk[w].pc = "park"
    /\ xwk' = [xwk EXCEPT ![w].pc = "recv", ![w].token = FALSE]
    /\ UNCHANGED <<xpool, xmain, xtask>>
    /\ ExIdleKv

NextExercise ==
    \/ ExecuteSend
    \/ ExecuteClear
    \/ Join
    \/ ClearLoop
    \/ ClearTry
    \/ ClearForEnd
    \/ \E w \in ExWorkers :
        \/ WorkerRecv(w)
        \/ WorkerTaskReturns(w)
        \/ WorkerTaskPanics(w)
        \/ WorkerSend(w)
        \/ WorkerUnparked(w)

InitExerciseSpec == InitKv /\ NoPool /\ NoServer /\ NoShared /\ InitExercise
SpecExercise == InitExerciseSpec /\ [][NextExercise]_vars

\* C30 as stated: whenever join has returned, with Ok or with Err, every task
\* execute was called with has run to completion
C30_JoinReturnsAfterAllTasks ==
    (xmain.caller = "join" /\ xmain.pc \in {"returned", "failed"})
        => \A t \in Passed : Completed(t)

\* C30 amended: whenever join has returned Ok, every task execute was called
\* with has run to completion
C30_JoinOkAfterAllTasks ==
    xmain.pc = "returned" => \A t \in Passed : Completed(t)

\* join has returned Ok after two tasks ran on two workers
C30_Witness ==
    /\ xmain.pc = "returned"
    /\ Cardinality(Passed) >= 2
    /\ \A t \in Passed : xtask[t].st = "received"
    /\ Len(xpool.avail) >= 2

\* C31: every call of execute returns Ok: it neither returns an error nor
\* panics, however many tasks were given to the pool before
C31_ExecuteAlwaysOk ==
    xmain.caller = "execute" => xmain.pc \notin {"panicked", "failed"}

\* C32: whenever dirty is false, the cached map is the map that a replay of
\* the current log file from scratch gives
C32_CleanMapIsReplay ==
    (status = "running" /\ ~dirty) =>
        LET r == read_log(open(file))
        IN  r.out = "Ok" /\ r.map = map

\* C33: a set or a remove of a key leaves what get finds for every other key
\* as it was before the call
C33_WritesChangeOneKey ==
    (status = "running" /\ last.op \in {"set", "remove"}) =>
        \A k \in Keys \ {last.key} : GetView(Store, k) = last.preView[k]

\* C34: no call on the store unwinds: compact_log, the only place of KvStore
\* that can panic, never computes a drain range outside the buffer nor a
\* subtraction below zero
C34_CompactionNeverPanics ==
    status # "panicked"

\* the store a call leaves behind, ready for the next call
after(st) == [st EXCEPT !.out = "Ok"]

\* C35: a get that returns leaves the result of every later get, set and
\* remove as it would have been without it
C35_GetIsPure ==
    status = "running" =>
        \A k \in Keys, p \in Perms :
            LET g == get(Store, k, p)
            IN  g.out # "Panic" =>
                  \A k2 \in Keys, q \in Perms :
                    /\ GetView(after(g), k2) = GetView(Store, k2)
                    /\ remove(after(g), k2, q).out = remove(Store, k2, q).out
                    /\ \A v \in Vals :
                         set(after(g), k2, v, q).out = set(Store, k2, v, q).out

\* C36: no task given to spawn is called more than once, by the workers of new
\* or by the replacements of workers that panicked
C36_TaskRunsAtMostOnce ==
    \A t \in Tasks : nruns[t] <= 1

\* a task has panicked and a replacement worker is running a later task, every
\* task given to spawn having been called once
C36_Witness ==
    /\ npanics > 0
    /\ nspawned >= 2
    /\ \A t \in 1..nspawned : nruns[t] = 1
    /\ \E w \in Workers : w > threads /\ wpc[w] = "run"

\* every thread of the pool is scheduled fairly, the jobs mutex is handed to
\* every thread that keeps asking for it, and task bodies end
SchedFair ==
    /\ \A w \in Workers :
        /\ SF_vars(WorkerLock(w))
        /\ WF_vars(WorkerPopEmpty(w))
        /\ WF_vars(WorkerPopJob(w))
        /\ WF_vars(WorkerPopShutdown(w))
        /\ WF_vars(TaskReturns(w))
        /\ WF_vars(TaskPanics(w))
    /\ WF_vars(SupRecvPanic)
    /\ WF_vars(SupSpawn)
    /\ WF_vars(SupRecvShutdown)
    /\ WF_vars(DropWait)

SpecPoolSched == SpecPool /\ SchedFair

\* C37: in a pool of at least one thread, every task given to spawn is
\* eventually called by a worker, unless the pool is dropped first
C37_EveryTaskEventuallyRuns ==
    \A t \in Tasks :
        (threads >= 1 /\ nspawned >= t) ~> (nruns[t] >= 1 \/ mpc # "running")

\* every worker started by new has panicked, and every task given to spawn,
\* as many as the bound allows, has been called, in a pool that is not dropped
C37_Witness ==
    /\ mpc = "running"
    /\ threads = MaxPool
    /\ npanics >= threads
    /\ nspawned = MaxTasks
    /\ \A t \in Tasks : nruns[t] = 1

\* a task given to spawn has been called and its call has ended, by a return
\* or by a panic
Finished(t) == nruns[t] >= 1 /\ \A w \in Workers : wtask[w].id # t

\* C38: when drop has returned, every task given to spawn before has finished
C38_DropWaitsForTasks ==
    mpc = "dropped" => \A t \in 1..nspawned : Finished(t)

\* C39: once drop has been called it returns, whatever the number of threads
\* the pool was created with
C39_DropTerminates ==
    (mpc = "waiting") ~> (mpc = "dropped")

-----------------------------------------------------------------------------
(* NaiveThreadPool (thread_pool/naive.rs).  new and the loop of the workers  *)
(* are those of the exercise's ThreadPool; spawn pops availThreads again     *)
(* after clear, and clear indexes with i - removed.                          *)

\* NaiveThreadPool::new
InitNaive == InitExercise

\* spawn from `let worker = is_worker.unwrap()` on (naive.rs:68-76): the last
\* worker of availThreads is sent the next task and moves to workingThreads
\* with the task's done-channel; unwrap panics when the send fails.  The
\* owner of the pool is left at m.
NaiveSend(m) ==
    LET w == xpool.avail[Len(xpool.avail)]
        t == NextTask
    IN  IF xwk[w].pc = "dead"
        THEN /\ xmain' = [m EXCEPT !.pc = "panicked"]
             /\ UNCHANGED <<xpool, xwk, xtask>>
        ELSE /\ xpool' = [avail |-> SubSeq(xpool.avail, 1, Len(xpool.avail) - 1),
                          working |-> Append(xpool.working, w),
                          recv |-> Append(xpool.recv, t)]
             /\ xtask' = [xtask EXCEPT ![t].st = "queued"]
             /\ xwk' = [xwk EXCEPT ![w].inbox = Append(@, t)]
             /\ xmain' = m

\* spawn: a worker is available
NaiveSpawnSend ==
    /\ xmain.pc = "idle" /\ NextTask <= MaxExTasks
    /\ xpool.avail # <<>>
    /\ NaiveSend([ExIdle EXCEPT !.caller = "spawn"])
    /\ ExIdleKv

\* spawn: availThreads.pop() is None, clear(false) is entered
NaiveSpawnClear ==
    /\ xmain.pc = "idle" /\ NextTask <= MaxExTasks
    /\ xpool.avail = <<>>
    /\ xmain' = [pc |-> "loop", caller |-> "spawn", full |-> FALSE,
                 i |-> 0, n |-> 0, cont |-> TRUE, removed |-> 0]
    /\ UNCHANGED <<xpool, xwk, xtask>>
    /\ ExIdleKv

\* clear: top of the loop; removed keeps its value from the pass before
NaiveClearLoop ==
    /\ xmain.pc = "loop"
    /\ xmain' = [xmain EXCEPT !.pc = "for", !.i = 0, !.n = Len(xpool.working)]
    /\ UNCHANGED <<xpool, xwk, xtask>>
    /\ ExIdleKv

\* clear as it would be with recvChan[i], as in the exercise's ThreadPool
index_unadjusted(i, removed) == i

\* let idx = i - removed
index(i, removed) == i - removed

\* clear: one iteration of the for loop, recvChan[idx].try_recv()
NaiveClearTry ==
    /\ xmain.pc = "for" /\ xmain.i < xmain.n
    /\ LET idx == index(xmain.i, xmain.removed)
       IN  IF idx < 0 \/ idx >= Len(xpool.recv)
           THEN \* the subtraction underflows or the index is out of bounds
                /\ xmain' = [xmain EXCEPT !.pc = "panicked"]
                /\ UNCHANGED <<xpool, xwk, xtask>>
           ELSE LET t == xpool.recv[idx + 1]
                    w == xpool.working[idx + 1]
                IN  IF xtask[t].st = "sent"
                    THEN /\ xpool' = [avail |-> Append(xpool.avail, w),
                                      working |-> remove_at(xpool.working, idx),
                                      recv |-> remove_at(xpool.recv, idx)]
                         /\ xwk' = [xwk EXCEPT ![w].token = TRUE]
                         /\ xtask' = [xtask EXCEPT ![t].st = "received"]
                         /\ xmain' = [xmain EXCEPT !.i = @ + 1, !.cont = FALSE,
                                                   !.removed = @ + 1]
                    ELSE IF xtask[t].st = "lost"
                    THEN \* Disconnected: clear returns the error, and
                         \* spawn panics in clear(false).unwrap()
                         /\ xmain' = [xmain EXCEPT !.pc = "panicked"]
                         /\ UNCHANGED <<xpool, xwk, xtask>>
                    ELSE \* Empty
                         /\ xmain' = [xmain EXCEPT !.i = @ + 1]
                         /\ UNCHANGED <<xpool, xwk, xtask>>
    /\ ExIdleKv

\* clear: the for loop is over and clear goes round
NaiveClearAgain ==
    /\ xmain.pc = "for" /\ xmain.i = xmain.n
    /\ ~may_return(xmain.cont, xmain.full, Len(xpool.recv))
    /\ xmain' = [xmain EXCEPT !.pc = "loop"]
    /\ UNCHANGED <<xpool, xwk, xtask>>
    /\ ExIdleKv

\* clear: the for loop is over and clear returns Ok; spawn pops availThreads
\* again, panics in unwrap when it is still empty, and sends the task
NaiveClearReturn ==
    /\ xmain.pc = "for" /\ xmain.i = xmain.n
    /\ may_return(xmain.cont, xmain.full, Len(xpool.recv))
    /\ IF xpool.avail = <<>>
       THEN /\ xmain' = [xmain EXCEPT !.pc = "panicked"]
            /\ UNCHANGED <<xpool, xwk, xtask>>
       ELSE NaiveSend([xmain EXCEPT !.pc = "idle"])
    /\ ExIdleKv

NextNaive ==
    \/ NaiveSpawnSend
    \/ NaiveSpawnClear
    \/ NaiveClearLoop
    \/ NaiveClearTry
    \/ NaiveClearAgain
    \/ NaiveClearReturn
    \/ \E w \in ExWorkers :
        \/ WorkerRecv(w)
        \/ WorkerTaskReturns(w)
        \/ WorkerTaskPanics(w)
        \/ WorkerSend(w)
        \/ WorkerUnparked(w)

InitNaiveSpec == InitKv /\ NoPool /\ NoServer /\ NoShared /\ InitNaive
SpecNaive == InitNaiveSpec /\ [][NextNaive]_vars

\* the workers new has started
NaiveWorkers == {w \in ExWorkers : xwk[w].pc # "none"}
\* no task given to the pool panics
NoTaskPanics == \A t \in ExTasks : ~xtask[t].panics

\* what C40 says of the pool between two calls of spawn, and of spawn
NaivePoolShape ==
    /\ xmain.pc # "panicked"
    /\ xmain.pc = "idle" =>
        LET all == xpool.avail \o xpool.working
        IN  /\ \A w \in NaiveWorkers :
                Cardinality({i \in DOMAIN all : all[i] = w}) = 1
            /\ \A i \in DOMAIN all : all[i] \in NaiveWorkers
            /\ Len(xpool.recv) = Len(xpool.working)
            /\ \A i \in DOMAIN xpool.recv :
                LET w == xpool.working[i]
                    t == xpool.recv[i]
                IN  \/ xwk[w].inbox = <<t>>
                    \/ xwk[w].inbox = <<>> /\ xwk[w].task = t
    /\ \A w \in NaiveWorkers :
        /\ Len(xwk[w].inbox) <= 1
        /\ xwk[w].inbox # <<>> => xwk[w].pc \in {"recv", "park"}

\* C40 as stated, for a pool of any number of threads
C40_NaivePoolInvariant ==
    NoTaskPanics => NaivePoolShape

\* C40 amended: the same for a pool of at least one thread
C40_NaivePoolInvariantFromOne ==
    (NoTaskPanics /\ NaiveWorkers # {}) => NaivePoolShape

\* spawn found every worker busy, waited in clear for one to finish and gave
\* it the last task the bound allows
C40_Witness ==
    /\ NoTaskPanics
    /\ xmain.pc = "idle"
    /\ xmain.caller = "spawn"
    /\ xmain.removed >= 1
    /\ Cardinality(NaiveWorkers) = MaxExPool
    /\ Cardinality(Passed) = MaxExTasks

====
